---------------------------- MODULE Spec2Model ----------------------------
(***************************************************************************)
(* The CTD processing-error report of hakai_ctd_issues/__main__.py:        *)
(* get_errors (message normalisation), get_summarized_errors (grouping,    *)
(* sampling, sorting) and main (short labels, issue texts, one summary    *)
(* page per organization).                                                 *)
(*                                                                         *)
(* A Python str is a sequence of one-character strings, so that slicing,   *)
(* startswith, replace, split and comparison are computed on characters.   *)
(* None is the one-element sequence <<"<None>">>, which is no str.         *)
(***************************************************************************)
EXTENDS Integers, Sequences, FiniteSets, TLC

(***************************************************************************)
(* Bounds of the model.                                                    *)
(***************************************************************************)
\* longest response of the cast view that is enumerated
MaxRecords == 5
\* how far past the 300-character cut the long payloads reach
MaxOver == 1

(***************************************************************************)
(* Program constants.                                                      *)
(***************************************************************************)
\* len(error) > 300 ; error[:300]
TruncateAt == 300
\* _get_subset(items, max_items=4)
max_items == 4

None == <<"<None>">>

\* "No lat/long information available for station "
StationPrefix ==
  <<"N", "o", " ", "l", "a", "t", "/", "l", "o", "n", "g", " ", "i", "n",
    "f", "o", "r", "m", "a", "t", "i", "o", "n", " ", "a", "v", "a", "i",
    "l", "a", "b", "l", "e", " ", "f", "o", "r", " ", "s", "t", "a", "t",
    "i", "o", "n", " ">>

\* "Unknown reference station"
UnknownStation ==
  <<"U", "n", "k", "n", "o", "w", "n", " ", "r", "e", "f", "e", "r", "e",
    "n", "c", "e", " ", "s", "t", "a", "t", "i", "o", "n">>

\* "NATURE TRUST"
NatureTrust == <<"N", "A", "T", "U", "R", "E", " ", "T", "R", "U", "S", "T">>

\* "message"
MessageKey == <<"m", "e", "s", "s", "a", "g", "e">>

(***************************************************************************)
(* str operations.                                                         *)
(***************************************************************************)
\* The characters of the model in code point order; str comparison is by
\* code point, and Ord is order-isomorphic to ord() on these characters.
Alphabet ==
  <<"\n", " ", "\"", "'", ",", "-", ".", "/",
    "0", "1", "2", "3", "4", "5", "6", "7", "8", "9", ":", "=",
    "A", "B", "C", "D", "E", "F", "G", "H", "I", "J", "K", "L", "M",
    "N", "O", "P", "Q", "R", "S", "T", "U", "V", "W", "X", "Y", "Z",
    "[", "\\", "]", "_",
    "a", "b", "c", "d", "e", "f", "g", "h", "i", "j", "k", "l", "m",
    "n", "o", "p", "q", "r", "s", "t", "u", "v", "w", "x", "y", "z",
    "{", "}">>

Ord(c) == CHOOSE i \in 1..Len(Alphabet) : Alphabet[i] = c

Min(a, b) == IF a < b THEN a ELSE b

\* s < t for two str
StrLess(s, t) ==
  LET n == Min(Len(s), Len(t)) IN
  IF SubSeq(s, 1, n) = SubSeq(t, 1, n) THEN Len(s) < Len(t)
  ELSE LET i == CHOOSE k \in 1..n :
                  s[k] # t[k] /\ SubSeq(s, 1, k - 1) = SubSeq(t, 1, k - 1)
       IN Ord(s[i]) < Ord(t[i])

\* s.startswith(p)
StartsWith(s, p) ==
  /\ Len(s) >= Len(p)
  /\ \A i \in 1..Len(p) : s[i] = p[i]

\* s[:n]
Slice(s, n) == SubSeq(s, 1, Min(n, Len(s)))

\* s.replace(a, b) for one-character a and b
Replace(s, a, b) == [i \in 1..Len(s) |-> IF s[i] = a THEN b ELSE s[i]]

\* f'"{s}"'
Quote(s) == <<"\"">> \o s \o <<"\"">>

\* n copies of the character c
Rep(c, n) == [i \in 1..n |-> c]

\* the f-string rendering of a field that is a str or None
Format(x) == IF x = None THEN <<"N", "o", "n", "e">> ELSE x

RECURSIVE Join(_, _)
\* sep.join(parts)
Join(parts, sep) ==
  IF Len(parts) = 0 THEN << >>
  ELSE IF Len(parts) = 1 THEN parts[1]
  ELSE parts[1] \o sep \o Join(Tail(parts), sep)

(***************************************************************************)
(* JSON values: [kind, val] with kind "str" (val the characters), "num"    *)
(* (val its digits), "null", "list" (val the items) and "obj" (val the     *)
(* <<key, value>> pairs).  A process_error payload is a JSON value, sent   *)
(* as its serialisation, or kind "text": characters that json.loads       *)
(* rejects.                                                                *)
(***************************************************************************)
RECURSIVE EscapeWith(_, _)
\* s with a newline written \n and the quote character q and the backslash
\* written with a leading backslash
EscapeWith(s, q) ==
  IF Len(s) = 0 THEN << >>
  ELSE IF Len(s) = 1 THEN
    (IF s[1] = "\n" THEN <<"\\", "n">>
     ELSE IF s[1] = q \/ s[1] = "\\" THEN <<"\\", s[1]>>
     ELSE s)
  ELSE EscapeWith(SubSeq(s, 1, Len(s) \div 2), q)
         \o EscapeWith(SubSeq(s, (Len(s) \div 2) + 1, Len(s)), q)

RECURSIVE Dumps(_)
\* the JSON text of a value
Dumps(v) ==
  CASE v.kind = "str" -> Quote(EscapeWith(v.val, "\""))
    [] v.kind = "num" -> v.val
    [] v.kind = "null" -> <<"n", "u", "l", "l">>
    [] v.kind = "list" ->
         <<"[">> \o Join([i \in 1..Len(v.val) |-> Dumps(v.val[i])], <<",", " ">>)
                 \o <<"]">>
    [] v.kind = "obj" ->
         <<"{">> \o Join([i \in 1..Len(v.val) |->
                            Quote(v.val[i][1]) \o <<":", " ">> \o Dumps(v.val[i][2])],
                         <<",", " ">>)
                 \o <<"}">>

\* the process_error string of a payload
Raw(p) == IF p.kind = "text" THEN p.val ELSE Dumps(p)

RECURSIVE Repr(_)
\* repr() of a parsed value, as an f-string renders a list or a dict
Repr(v) ==
  CASE v.kind = "str" ->
         IF (\E i \in 1..Len(v.val) : v.val[i] = "'")
            /\ ~(\E i \in 1..Len(v.val) : v.val[i] = "\"")
         THEN <<"\"">> \o EscapeWith(v.val, "\"") \o <<"\"">>
         ELSE <<"'">> \o EscapeWith(v.val, "'") \o <<"'">>
    [] v.kind = "num" -> v.val
    [] v.kind = "null" -> <<"N", "o", "n", "e">>
    [] v.kind = "list" ->
         <<"[">> \o Join([i \in 1..Len(v.val) |-> Repr(v.val[i])], <<",", " ">>)
                 \o <<"]">>
    [] v.kind = "obj" ->
         <<"{">> \o Join([i \in 1..Len(v.val) |->
                            Repr([kind |-> "str", val |-> v.val[i][1]])
                              \o <<":", " ">> \o Repr(v.val[i][2])],
                         <<",", " ">>)
                 \o <<"}">>

\* whether the parsed object has the key
HasKey(obj, key) == \E i \in 1..Len(obj.val) : obj.val[i][1] = key

\* obj[key]: of a repeated key json.loads keeps the last value
Lookup(obj, key) ==
  LET i == CHOOSE k \in 1..Len(obj.val) :
             /\ obj.val[k][1] = key
             /\ \A j \in (k + 1)..Len(obj.val) : obj.val[j][1] # key
  IN obj.val[i][2]

(***************************************************************************)
(* get_errors._get_error_message.  The result is [raised, val]: the str    *)
(* returned, or the exception that leaves the function.                    *)
(***************************************************************************)
Returned(s) == [raised |-> FALSE, val |-> s]

Raised(e) == [raised |-> TRUE, val |-> e]

\* the except branch on a str: cut to 300 characters, then quote
except_branch(error) ==
  Returned(Quote(IF Len(error) > TruncateAt THEN Slice(error, TruncateAt) ELSE error))

get_error_message(p) ==
  IF p.kind = "text" THEN
    \* json.loads raises; error is still the process_error string
    except_branch(Raw(p))
  ELSE IF p.kind # "obj" THEN
    \* ["message"] on a list, str, number or None raises TypeError
    except_branch(Raw(p))
  ELSE IF ~HasKey(p, MessageKey) THEN
    \* KeyError
    except_branch(Raw(p))
  ELSE
    LET error == Lookup(p, MessageKey) IN
    CASE error.kind = "str" ->
           IF StartsWith(error.val, StationPrefix)
           THEN Returned(UnknownStation)
           ELSE Returned(Replace(Quote(error.val), "\n", " "))
      [] error.kind \in {"null", "num"} ->
           \* .startswith raises AttributeError; in the handler len(error)
           \* raises TypeError, which nothing catches
           Raised("TypeError")
      [] error.kind = "list" ->
           \* .startswith raises AttributeError; len() and [:300] are the
           \* list's, and the f-string renders repr(list)
           Returned(Quote(Repr([kind |-> "list",
                                val |-> IF Len(error.val) > TruncateAt
                                        THEN Slice(error.val, TruncateAt)
                                        ELSE error.val])))
      [] error.kind = "obj" ->
           \* len() counts the keys; a dict cannot be sliced
           IF Len(error.val) > TruncateAt
           THEN Raised("TypeError")
           ELSE Returned(Quote(Repr(error)))


(***************************************************************************)
(* The response of the cast view: a sequence of records with the fields    *)
(* of CTD_CASTS_FIELDS that the program reads (device_model is fetched and *)
(* never read).  The view filters on process_error != null and != '', so   *)
(* every payload is a non-empty string; hakai_id is the cast's identifier  *)
(* and is never null; the other fields are nullable columns.               *)
(***************************************************************************)
Hakai == <<"H", "A", "K", "A", "I">>

Static == <<"S", "t", "a", "t", "i", "c">>

Text(s) == [kind |-> "text", val |-> s]

Str(s) == [kind |-> "str", val |-> s]

Null == [kind |-> "null", val |-> << >>]

Num(digits) == [kind |-> "num", val |-> digits]

List(items) == [kind |-> "list", val |-> items]

Obj(pairs) == [kind |-> "obj", val |-> pairs]

\* {"message": m}
WithMessage(m) == Obj(<< <<MessageKey, m>> >>)

\* "Error: sensor {fault}."
SensorFault ==
  <<"E", "r", "r", "o", "r", ":", " ", "s", "e", "n", "s", "o", "r", " ",
    "{", "f", "a", "u", "l", "t", "}", ".">>

\* the lengths around the 300-character cut
Lengths == (TruncateAt - 1)..(TruncateAt + MaxOver)

\* the messages and plain texts of the payloads
Messages ==
  {SensorFault, <<"a", "\n", "b">>, StationPrefix \o <<"X">>,
   StationPrefix \o <<"Y">>}
    \cup {Rep("x", n) : n \in Lengths}

Payloads ==
  {Text(m) : m \in Messages}
    \cup {WithMessage(Str(m)) : m \in Messages}
    \cup {WithMessage(Null), WithMessage(Num(<<"5">>)),
          WithMessage(List(<<Str(<<"a">>), Null>>)),
          WithMessage(Obj(<< <<(<<"k">>), Str(<<"v">>)>> >>)),
          Obj(<< <<(<<"d">>), Str(<<"x">>)>> >>),
          List(<<Str(<<"a">>)>>), Str(<<"a">>), Num(<<"5">>), Null}

\* records that differ in organization and work area: the grouping, the
\* sample of hakai_ids and the sort
GroupingPool ==
  [organization : {Hakai, NatureTrust}, work_area : {<<"A">>, <<"B">>},
   cruise : {<<"C", "1">>}, cast_type : {Static},
   process_error : {Text(SensorFault)}]

\* records that differ in the payload: the normalisation
PayloadPool ==
  [organization : {Hakai}, work_area : {<<"A">>}, cruise : {None},
   cast_type : {Static}, process_error : Payloads]

\* records with null grouping fields, and two messages
NullPool ==
  [organization : {Hakai, NatureTrust, None}, work_area : {<<"A">>, None},
   cruise : {<<"C", "1">>}, cast_type : {Static, None},
   process_error : {Text(SensorFault), WithMessage(Str(StationPrefix \o <<"X">>))}]

\* the longest response drawn from PayloadPool
MaxPayloadRecords == 1

\* the longest response drawn from NullPool
MaxNullRecords == 2

Digits == <<"0", "1", "2", "3", "4", "5", "6", "7", "8", "9">>

\* str(n) for 0 <= n <= 99
Decimal(n) ==
  IF n < 10 THEN <<Digits[n + 1]>> ELSE <<Digits[(n \div 10) + 1], Digits[(n % 10) + 1]>>

\* the i-th row of a response: hakai_id H<i>, station S1 or S2
Row(fields, i) ==
  [organization |-> fields.organization, work_area |-> fields.work_area,
   cruise |-> fields.cruise, cast_type |-> fields.cast_type,
   station |-> <<"S">> \o Decimal(1 + (i % 2)),
   hakai_id |-> <<"H">> \o Decimal(i),
   process_error |-> fields.process_error]

\* the responses of at most n records over a pool
BatchesOver(pool, n) ==
  UNION {{[i \in 1..len |-> Row(f[i], i)] : f \in [1..len -> pool]} : len \in 0..n}

Batches ==
  BatchesOver(GroupingPool, MaxRecords)
    \cup BatchesOver(PayloadPool, MaxPayloadRecords)
    \cup BatchesOver(NullPool, MaxNullRecords)

(***************************************************************************)
(* get_summarized_errors.                                                  *)
(***************************************************************************)
Ellipsis == <<".", ".", ".">>

\* _get_subset with the cut at max_items members instead of above it
get_subset_at_threshold(items) ==
  IF Len(items) >= max_items
  THEN Slice(items, max_items) \o <<Ellipsis>>
  ELSE items

\* _get_subset, applied by agg to the group's hakai_id Series
get_subset(items) ==
  IF Len(items) > max_items
  THEN Slice(items, max_items) \o <<Ellipsis>>
  ELSE items

\* errors["work_area"] = errors.apply(lambda x: ..., axis=1)
adjust_work_area(x) ==
  IF x.organization = NatureTrust
  THEN [x EXCEPT !.work_area =
          Format(x.work_area) \o <<"[", "c", "r", "u", "i", "s", "e", "=">>
            \o Format(x.cruise) \o <<"]">>]
  ELSE x

\* the groupby key of a row
RowKey(x) == <<x.organization, x.work_area, x.cast_type, x.process_error_message>>

\* groupby(dropna=True), the default: a row with a null key is in no group
HasNullKey(x) == \E i \in 1..4 : RowKey(x)[i] = None

\* tuple comparison of two keys
KeyLess(k1, k2) ==
  \E i \in 1..4 :
    /\ \A j \in 1..(i - 1) : k1[j] = k2[j]
    /\ StrLess(k1[i], k2[i])

RECURSIVE SortKeysDescending(_)
\* the group keys in descending order
SortKeysDescending(S) ==
  IF S = {} THEN << >>
  ELSE LET m == CHOOSE k \in S : \A o \in S \ {k} : KeyLess(o, k)
       IN <<m>> \o SortKeysDescending(S \ {m})

RECURSIVE SortKeys(_)
\* groupby(sort=True), the default: the group keys in ascending order
SortKeys(S) ==
  IF S = {} THEN << >>
  ELSE LET m == CHOOSE k \in S : \A o \in S \ {k} : KeyLess(k, o)
       IN <<m>> \o SortKeys(S \ {m})

RECURSIVE ScanRows(_, _, _)
\* one pass over the rows: each row joins the group of its key, in row order
ScanRows(rows, i, groups) ==
  IF i > Len(rows) THEN groups
  ELSE IF HasNullKey(rows[i]) THEN ScanRows(rows, i + 1, groups)
  ELSE ScanRows(rows, i + 1,
                [groups EXCEPT ![RowKey(rows[i])] = Append(@, i)])

\* the row numbers of each group
GroupBy(rows) ==
  LET keys == {RowKey(rows[i]) : i \in {j \in 1..Len(rows) : ~HasNullKey(rows[j])}}
  IN ScanRows(rows, 1, [k \in keys |-> << >>])

\* .agg({"hakai_id": [_get_subset, "count"], "process_error": "first",
\*       "station": set}) and the renamed columns
Aggregate(rows, key, members) ==
  LET ids == [n \in 1..Len(members) |-> rows[members[n]].hakai_id] IN
  [organization |-> key[1], work_area |-> key[2], cast_type |-> key[3],
   process_error_message |-> key[4],
   hakai_ids |-> get_subset(ids),
   count |-> Len(SelectSeq(ids, LAMBDA id : id # None)),
   process_error |-> rows[members[1]].process_error,
   stations |-> {rows[members[n]].station : n \in 1..Len(members)}]

\* sort_values(["organization", "count"], ascending=False): a before b
SortsBefore(a, b) ==
  \/ StrLess(b.organization, a.organization)
  \/ /\ a.organization = b.organization
     /\ a.count > b.count

RECURSIVE sort_values(_)
\* the sort of several columns is stable: of the rows that no other row
\* sorts before, the first one comes first
sort_values(frame) ==
  IF Len(frame) = 0 THEN << >>
  ELSE LET i == CHOOSE n \in 1..Len(frame) :
                  /\ \A m \in 1..Len(frame) : ~SortsBefore(frame[m], frame[n])
                  /\ \A m \in 1..(n - 1) :
                        \E o \in 1..Len(frame) : SortsBefore(frame[o], frame[m])
       IN <<frame[i]>>
            \o sort_values(SubSeq(frame, 1, i - 1) \o SubSeq(frame, i + 1, Len(frame)))

\* the frame get_summarized_errors returns, from the frame with the
\* adjusted work areas
get_summarized_errors(rows) ==
  LET groups == GroupBy(rows)
      keys == SortKeys(DOMAIN groups)
  IN sort_values([n \in 1..Len(keys) |-> Aggregate(rows, keys[n], groups[keys[n]])])


(***************************************************************************)
(* main: the short label, re.sub('[\{"\]', "", x.split(".")[0]) if x       *)
(* else x.                                                                 *)
(***************************************************************************)
\* the pattern as the str literal denotes it: [ \ { " \ ]
ShortPattern == <<"[", "\\", "{", "\"", "\\", "]">>

RECURSIVE ParseSet(_, _, _)
\* re's parse of a character set from position i, after the "[": a
\* backslash takes the next character literally, "]" closes a set that is
\* not empty, and the end of the pattern inside the set is an error
ParseSet(pattern, i, chars) ==
  IF i > Len(pattern) THEN [ok |-> FALSE, chars |-> chars]
  ELSE IF pattern[i] = "]" /\ chars # {} THEN [ok |-> i = Len(pattern), chars |-> chars]
  ELSE IF pattern[i] = "\\" THEN
    IF i = Len(pattern) THEN [ok |-> FALSE, chars |-> chars]
    ELSE ParseSet(pattern, i + 2, chars \cup {pattern[i + 1]})
  ELSE ParseSet(pattern, i + 1, chars \cup {pattern[i]})

\* re.compile of a pattern that is one character set
re_compile(pattern) ==
  IF Len(pattern) > 0 /\ pattern[1] = "["
  THEN ParseSet(pattern, 2, {})
  ELSE [ok |-> FALSE, chars |-> {}]

\* re.sub(pattern, "", s)
re_sub(pattern, s) ==
  LET set == re_compile(pattern) IN
  IF set.ok
  THEN Returned(SelectSeq(s, LAMBDA c : c \notin set.chars))
  ELSE Raised("re.error")

\* x.split(".")[0]
BeforeDot(x) ==
  IF \E i \in 1..Len(x) : x[i] = "."
  THEN SubSeq(x, 1, (CHOOSE i \in 1..Len(x) :
                       x[i] = "." /\ \A j \in 1..(i - 1) : x[j] # ".") - 1)
  ELSE x

\* the lambda of line 139 with the given pattern
short_label(pattern, x) ==
  IF Len(x) = 0 THEN Returned(x) ELSE re_sub(pattern, BeforeDot(x))

(***************************************************************************)
(* main: the issue text and the organization page.  The text of a          *)
(* template is fixed, so a rendering is modelled by the values it is       *)
(* rendered with.                                                          *)
(***************************************************************************)
\* ISSUE_TEMPLATE.format(**issue.to_dict())
get_issue_md(issue) ==
  [process_error_message |-> issue.process_error_message,
   organization |-> issue.organization,
   work_area |-> issue.work_area,
   count |-> issue.count,
   process_error |-> Raw(issue.process_error),
   hakai_ids |-> issue.hakai_ids]

UpperCase ==
  <<"A", "B", "C", "D", "E", "F", "G", "H", "I", "J", "K", "L", "M", "N",
    "O", "P", "Q", "R", "S", "T", "U", "V", "W", "X", "Y", "Z">>

LowerCase ==
  <<"a", "b", "c", "d", "e", "f", "g", "h", "i", "j", "k", "l", "m", "n",
    "o", "p", "q", "r", "s", "t", "u", "v", "w", "x", "y", "z">>

\* s.lower()
Lower(s) ==
  [i \in 1..Len(s) |->
     IF \E n \in 1..26 : UpperCase[n] = s[i]
     THEN LowerCase[CHOOSE n \in 1..26 : UpperCase[n] = s[i]]
     ELSE s[i]]

\* organization.replace(" ", "_").lower()
OrganizationKey(organization) == Lower(Replace(organization, " ", "_"))

\* ORGANIZATION_LABELS.get(organization, organization)
OrganizationLabel(key) ==
  CASE key = <<"h", "a", "k", "a", "i">> ->
         <<"H", "a", "k", "a", "i", " ", "I", "n", "s", "t", "i", "t", "u", "t", "e">>
    [] key = <<"n", "a", "t", "u", "r", "e", "_", "t", "r", "u", "s", "t">> ->
         <<"N", "a", "t", "u", "r", "e", " ", "T", "r", "u", "s", "t">>
    [] key = <<"s", "f", "c">> ->
         <<"S", "k", "e", "e", "n", "a", " ", "F", "i", "s", "h", "e", "r", "i",
           "e", "s", " ", "C", "o", "m", "m", "i", "s", "s", "i", "o", "n">>
    [] key = <<"p", "a", "r", "k", "s", "_", "c", "a", "n", "a", "d", "a">> ->
         <<"P", "a", "r", "k", "s", " ", "C", "a", "n", "a", "d", "a">>
    [] OTHER -> key

RECURSIVE SortStrs(_)
\* a set of str in ascending order
SortStrs(S) ==
  IF S = {} THEN << >>
  ELSE LET m == CHOOSE s \in S : \A o \in S \ {s} : StrLess(s, o)
       IN <<m>> \o SortStrs(S \ {m})

\* the group names of summarized_errors.groupby("organization"), in the
\* order the loop visits them
OrganizationGroups(frame) ==
  SortStrs({frame[n].organization : n \in 1..Len(frame)})

\* df_org: the rows of one organization, in frame order
OrganizationRows(frame, organization) ==
  SelectSeq(frame, LAMBDA row : row.organization = organization)

RECURSIVE SumCounts(_)
\* df_org["count"].sum()
SumCounts(rows) ==
  IF Len(rows) = 0 THEN 0 ELSE rows[1].count + SumCounts(Tail(rows))

\* what organization_summary.render receives, but for the figure
SummaryPage(frame, organization) ==
  LET df_org == OrganizationRows(frame, organization) IN
  [total_errors |-> Len(df_org),
   affected_hakai_ids |-> SumCounts(df_org),
   organization |-> OrganizationLabel(OrganizationKey(organization)),
   summary_table |->
     [n \in 1..Len(df_org) |->
        [work_area |-> df_org[n].work_area, cast_type |-> df_org[n].cast_type,
         process_error_message |-> df_org[n].process_error_message,
         count |-> df_org[n].count, hakai_ids |-> df_org[n].hakai_ids]]]

\* paths below the output directory, as their components
OutputDir == << >>

IssuesFolder == << <<"i", "s", "s", "u", "e", "s">> >>

OrgDir(organization) == <<OrganizationKey(organization)>>

IndexPath(organization) ==
  <<OrganizationKey(organization), <<"i", "n", "d", "e", "x", ".", "m", "d">> >>

(***************************************************************************)
(* The run of main.                                                        *)
(***************************************************************************)
VARIABLES
  pc,                 \* the stage main has reached
  response,           \* response.json() of the cast view
  errors,             \* the frame of get_errors
  summarized_errors,  \* the frame of get_summarized_errors
  short,              \* its column process_error_message_short
  issues_md,          \* its column issues_md
  pending,            \* the organizations the loop has still to visit
  dirs,               \* the directories below the output directory
  files,              \* the files below it, by path
  failure             \* the exception that ended the run

vars ==
  <<pc, response, errors, summarized_errors, short, issues_md, pending, dirs,
    files, failure>>

NoFailure == [at |-> "", exc |-> ""]

Fail(at, exc) ==
  /\ pc' = "failed"
  /\ failure' = [at |-> at, exc |-> exc]

Init ==
  /\ pc = "start"
  /\ response \in Batches
  /\ errors = << >>
  /\ summarized_errors = << >>
  /\ short = << >>
  /\ issues_md = << >>
  /\ pending = << >>
  /\ dirs = {}
  /\ files = << >>
  /\ failure = NoFailure

\* the row of errors for a record and its message
ErrorRow(x, message) ==
  [organization |-> x.organization, work_area |-> x.work_area,
   cruise |-> x.cruise, cast_type |-> x.cast_type, station |-> x.station,
   hakai_id |-> x.hakai_id, process_error |-> x.process_error,
   process_error_message |-> message]

\* get_errors: the request, the frame and the message column
GetErrors ==
  /\ pc = "start"
  /\ \E status_ok \in BOOLEAN :
       LET results == [i \in 1..Len(response) |->
                         get_error_message(response[i].process_error)]
           raising == {i \in 1..Len(response) : results[i].raised}
       IN IF ~status_ok THEN
            \* response.raise_for_status()
            Fail("raise_for_status", "HTTPError") /\ UNCHANGED errors
          ELSE IF Len(response) = 0 THEN
            \* a frame of no rows has no column process_error
            Fail("get_errors", "KeyError") /\ UNCHANGED errors
          ELSE IF raising # {} THEN
            Fail("_get_error_message",
                 results[CHOOSE i \in raising : \A j \in raising : i <= j].val)
              /\ UNCHANGED errors
          ELSE
            /\ errors' = [i \in 1..Len(response) |->
                            ErrorRow(response[i], Replace(results[i].val, "\n", " "))]
            /\ pc' = "normalized"
            /\ UNCHANGED failure
  /\ UNCHANGED <<response, summarized_errors, short, issues_md, pending, dirs, files>>

\* get_summarized_errors(errors), which rewrites errors["work_area"]
Summarize ==
  /\ pc = "normalized"
  /\ errors' = [i \in 1..Len(errors) |-> adjust_work_area(errors[i])]
  /\ summarized_errors' = get_summarized_errors(errors')
  /\ pc' = "summarized"
  /\ UNCHANGED <<response, short, issues_md, pending, dirs, files, failure>>

\* lines 137-139: the column process_error_message_short
ShortLabel ==
  /\ pc = "summarized"
  /\ LET labels == [n \in 1..Len(summarized_errors) |->
                      short_label(ShortPattern,
                                  summarized_errors[n].process_error_message)]
     IN IF \E n \in 1..Len(labels) : labels[n].raised
        THEN Fail("process_error_message_short", "re.error") /\ UNCHANGED short
        ELSE /\ short' = [n \in 1..Len(labels) |-> labels[n].val]
             /\ pc' = "labelled"
             /\ UNCHANGED failure
  /\ UNCHANGED <<response, errors, summarized_errors, issues_md, pending, dirs, files>>

\* line 140: the column issues_md
ComposeIssues ==
  /\ pc = "labelled"
  /\ issues_md' = [n \in 1..Len(summarized_errors) |->
                     get_issue_md(summarized_errors[n])]
  /\ pc' = "composed"
  /\ UNCHANGED <<response, errors, summarized_errors, short, pending, dirs, files,
                 failure>>

\* lines 152-155: the output directory and its issues folder; either mkdir
\* may raise OSError.  The loop that wrote issue-{id}.md is commented out.
MakeDirs ==
  /\ pc = "composed"
  /\ \E made \in 0..2 :
       /\ dirs' = dirs \cup (IF made >= 1 THEN {OutputDir} ELSE {})
                       \cup (IF made >= 2 THEN {IssuesFolder} ELSE {})
       /\ IF made < 2
          THEN Fail("mkdir", "OSError") /\ UNCHANGED pending
          ELSE /\ pending' = OrganizationGroups(summarized_errors)
               /\ pc' = "writing"
               /\ UNCHANGED failure
  /\ UNCHANGED <<response, errors, summarized_errors, short, issues_md, files>>

\* one pass of the loop of lines 161-199: the organization's directory,
\* its page and index.md; mkdir and write_text may raise OSError
WriteOrganization ==
  /\ pc = "writing"
  /\ pending # << >>
  /\ LET organization == Head(pending) IN
     \E outcome \in {"written", "mkdir raises", "write_text raises"} :
       /\ dirs' = IF outcome = "mkdir raises" THEN dirs
                  ELSE dirs \cup {OrgDir(organization)}
       /\ IF outcome = "written"
          THEN /\ files' = (IndexPath(organization)
                              :> SummaryPage(summarized_errors, organization)) @@ files
               /\ pending' = Tail(pending)
               /\ UNCHANGED <<pc, failure>>
          ELSE /\ Fail(IF outcome = "mkdir raises" THEN "mkdir" ELSE "write_text",
                       "OSError")
               /\ UNCHANGED <<files, pending>>
  /\ UNCHANGED <<response, errors, summarized_errors, short, issues_md>>

\* the loop is over and main returns
Finish ==
  /\ pc = "writing"
  /\ pending = << >>
  /\ pc' = "done"
  /\ UNCHANGED <<response, errors, summarized_errors, short, issues_md, pending,
                 dirs, files, failure>>

\* main up to line 139, where re.error ends every run that has a class
Next == GetErrors \/ Summarize \/ ShortLabel

Spec == Init /\ [][Next]_vars

(***************************************************************************)
(* The output stage, lines 140-199, as a function of the frame: it starts  *)
(* from every frame get_summarized_errors returns, with the short labels   *)
(* of the character set line 139 is written to remove.                     *)
(***************************************************************************)
\* [\{"\]] : the set of line 139, closed
ClosedPattern == ShortPattern \o <<"]">>

\* the frames of errors that get_errors returns
Normalized(batch) ==
  [i \in 1..Len(batch) |->
     ErrorRow(batch[i],
              Replace(get_error_message(batch[i].process_error).val, "\n", " "))]

RenderBatches ==
  {b \in Batches :
     /\ Len(b) > 0
     /\ \A i \in 1..Len(b) : ~get_error_message(b[i].process_error).raised}

InitRender ==
  /\ pc = "labelled"
  /\ response \in RenderBatches
  /\ errors = [i \in 1..Len(response) |-> adjust_work_area(Normalized(response)[i])]
  /\ summarized_errors = get_summarized_errors(errors)
  /\ short = [n \in 1..Len(summarized_errors) |->
                short_label(ClosedPattern,
                            summarized_errors[n].process_error_message).val]
  /\ issues_md = << >>
  /\ pending = << >>
  /\ dirs = {}
  /\ files = << >>
  /\ failure = NoFailure

NextRender == ComposeIssues \/ MakeDirs \/ WriteOrganization \/ Finish

SpecRender == InitRender /\ [][NextRender]_vars


(***************************************************************************)
(* The properties.                                                         *)
(***************************************************************************)
\* the key of a class
ClassKey(c) == <<c.organization, c.work_area, c.cast_type, c.process_error_message>>

\* the rows of errors that have the key, in row order
MemberRows(key) == SelectSeq(errors, LAMBDA x : RowKey(x) = key)

\* the hakai_id of the rows of errors that have the key, in row order
MemberIds(key) == [n \in 1..Len(MemberRows(key)) |-> MemberRows(key)[n].hakai_id]

\* the first row of errors that has the key
FirstSeen(key) ==
  CHOOSE i \in 1..Len(errors) :
    /\ RowKey(errors[i]) = key
    /\ \A j \in 1..(i - 1) : RowKey(errors[j]) # key

\* the candidate message of a payload: the message field of a JSON object
\* that has one, and the process_error string otherwise
Candidate(p) ==
  IF p.kind = "obj" /\ HasKey(p, MessageKey) /\ Lookup(p, MessageKey).kind = "str"
  THEN Lookup(p, MessageKey).val
  ELSE Raw(p)

\* s without the characters "{", the double quote and "]"
Stripped(s) == SelectSeq(s, LAMBDA c : c \notin {"{", "\"", "]"})

\* issues/issue-{i}.md
IssuePath(i) ==
  IssuesFolder \o << <<"i", "s", "s", "u", "e", "-">> \o Decimal(i) \o <<".", "m", "d">> >>

\* whether a record lacks a grouping field
LacksGroupingField(x) ==
  x.organization = None \/ x.work_area = None \/ x.cast_type = None

\* C1: every display message get_errors computes has at most 302 characters
\* (300 and the two quotes) and holds no newline.
C1_BoundedSingleLine ==
  \A i \in 1..Len(errors) :
    /\ Len(errors[i].process_error_message) <= 302
    /\ \A k \in 1..Len(errors[i].process_error_message) :
         errors[i].process_error_message[k] # "\n"

\* C2: no exception leaves _get_error_message, whatever the payload.
C2_NeverRaises == ~(pc = "failed" /\ failure.at = "_get_error_message")

\* C3: the classes partition the records: every record of errors has its
\* key in exactly one class, and the counts add up to the number of records.
C3_Partition ==
  pc = "summarized" =>
    /\ \A i \in 1..Len(errors) :
         Cardinality({n \in 1..Len(summarized_errors) :
                        ClassKey(summarized_errors[n]) = RowKey(errors[i])}) = 1
    /\ SumCounts(summarized_errors) = Len(errors)

C5_SampleAndCount ==
  \A n \in 1..Len(summarized_errors) :
    LET c == summarized_errors[n]
        ids == MemberIds(ClassKey(c))
    IN /\ c.count = Len(ids)
       /\ Len(ids) <= 4 => c.hakai_ids = ids
       /\ Len(ids) >= 5 =>
            /\ Len(c.hakai_ids) = 5
            /\ SubSeq(c.hakai_ids, 1, 4) = SubSeq(ids, 1, 4)
            /\ c.hakai_ids[5] = <<".", ".", ".">>

\* C5, its case: a class of 5 members, whose sample ends with the sentinel
C5_SentinelReached ==
  /\ pc = "summarized"
  /\ \E n \in 1..Len(summarized_errors) :
       /\ summarized_errors[n].count = 5
       /\ summarized_errors[n].hakai_ids[5] = <<".", ".", ".">>

\* C6 as stated: the classes are in descending order of organization, then
\* of count, and classes equal in both are in the order in which their
\* first records appear in the input.
C6_TiesFirstSeen ==
  \A m, n \in 1..Len(summarized_errors) :
    m < n =>
      LET a == summarized_errors[m]
          b == summarized_errors[n]
      IN \/ StrLess(b.organization, a.organization)
         \/ a.organization = b.organization /\ a.count > b.count
         \/ /\ a.organization = b.organization
            /\ a.count = b.count
            /\ FirstSeen(ClassKey(a)) < FirstSeen(ClassKey(b))

\* C6 as amended: the classes are in descending order of organization, then
\* of count, and classes equal in both are in ascending order of
\* (work_area, cast_type, process_error_message).
C6_TiesKeyOrder ==
  \A m, n \in 1..Len(summarized_errors) :
    m < n =>
      LET a == summarized_errors[m]
          b == summarized_errors[n]
      IN \/ StrLess(b.organization, a.organization)
         \/ a.organization = b.organization /\ a.count > b.count
         \/ /\ a.organization = b.organization
            /\ a.count = b.count
            /\ KeyLess(ClassKey(a), ClassKey(b))

\* C6, its case: two classes of one organization and one count, of which
\* the one that comes second was seen first
C6_TieReached ==
  /\ pc = "summarized"
  /\ \E m, n \in 1..Len(summarized_errors) :
       /\ m < n
       /\ summarized_errors[m].organization = summarized_errors[n].organization
       /\ summarized_errors[m].count = summarized_errors[n].count
       /\ FirstSeen(ClassKey(summarized_errors[n]))
            < FirstSeen(ClassKey(summarized_errors[m]))

\* C7: a candidate that starts with the station prefix gives the unquoted
\* label "Unknown reference station", whether it is the message of a JSON
\* payload or the process_error string; every other candidate is quoted.
C7_PrefixGivesLabel ==
  \A i \in 1..Len(errors) :
    LET message == errors[i].process_error_message IN
    IF StartsWith(Candidate(response[i].process_error), StationPrefix)
    THEN message = UnknownStation
    ELSE message[1] = "\"" /\ message[Len(message)] = "\""

C9_MissingFieldAborts ==
  (\E i \in 1..Len(response) : LacksGroupingField(response[i]))
    => pc \notin {"summarized", "labelled"}

\* C10: line 139 does not fail, and the short label of a class is its
\* message up to the first "." without the characters {, " and ].
C10_ShortLabelComputed ==
  /\ ~(pc = "failed" /\ failure.at = "process_error_message_short")
  /\ pc = "labelled" =>
       \A n \in 1..Len(summarized_errors) :
         short[n] = Stripped(BeforeDot(summarized_errors[n].process_error_message))

=============================================================================
